---------------------------- MODULE Spec2Model ----------------------------
(***************************************************************************)
(* Masterminds/httputil: the route Resolver (ResolvePath, subtreeMatch)    *)
(* and the HTTP Basic authentication helper (HTTPAuth, BasicAuth,          *)
(* parseBasicString).                                                      *)
(*                                                                         *)
(* A Go string is a sequence of one-character strings.  The Go standard    *)
(* library calls the code makes (strings.*, path.Match, base64) are        *)
(* operators that compute what the library computes, as of the current Go  *)
(* toolchain: strings.SplitN allocates min(n, len(s)+1) slots, and         *)
(* path.Match reports a malformed pattern also when the name mismatches.   *)
(***************************************************************************)
EXTENDS Integers, Sequences, FiniteSets, TLC

VARIABLES paths, given, calls, auth

vars == <<paths, given, calls, auth>>

(***************************************************************************)
(* Bounds of the model.                                                    *)
(***************************************************************************)
MaxBodyLen == 2
MaxPathLen == 3
MaxCalls == 2
MaxFields == 2

(***************************************************************************)
(* Go strings.                                                             *)
(***************************************************************************)
Nil == "nil"
ErrBadPattern == "ErrBadPattern"
ErrRouteNotFound == "ErrRouteNotFound"
ErrIllegalStar == "illegal ** pattern"

\* F(a) with a evaluated once, before F is applied (an operator's arguments are
\* otherwise evaluated again at each use, which compounds in a recursion).
Eager(F(_), a) == CHOOSE r \in {F(v) : v \in {a}} : TRUE

Take(s, n) == SubSeq(s, 1, n)
Drop(s, n) == SubSeq(s, n + 1, Len(s))

Min(a, b) == IF a < b THEN a ELSE b

\* strings.HasSuffix
HasSuffix(s, suffix) ==
    /\ Len(s) >= Len(suffix)
    /\ SubSeq(s, Len(s) - Len(suffix) + 1, Len(s)) = suffix

\* strings.HasPrefix
HasPrefix(s, prefix) ==
    /\ Len(s) >= Len(prefix)
    /\ SubSeq(s, 1, Len(prefix)) = prefix

\* strings.Count with a one-character separator
RECURSIVE Count(_, _)
Count(s, c) ==
    IF s = <<>> THEN 0
    ELSE (IF Head(s) = c THEN 1 ELSE 0) + Count(Tail(s), c)

\* strings.Index with a one-character separator: the 1-based position, 0 if none
RECURSIVE IndexFrom(_, _, _)
IndexFrom(s, c, i) ==
    IF i > Len(s) THEN 0
    ELSE IF s[i] = c THEN i
    ELSE IndexFrom(s, c, i + 1)

Index(s, c) == IndexFrom(s, c, 1)

\* strings.Contains
RECURSIVE Contains(_, _)
Contains(s, sub) ==
    IF Len(s) < Len(sub) THEN FALSE
    ELSE HasPrefix(s, sub) \/ Contains(Tail(s), sub)

\* The loop of strings.genSplit: at most n pieces, the last one keeps the rest.
RECURSIVE SplitLoop(_, _, _)
SplitLoop(s, c, n) ==
    LET rest(v) == SplitLoop(v, c, n - 1)
        cut(m) == IF m = 0 THEN <<s>>
                  ELSE <<Take(s, m - 1)>> \o Eager(rest, Drop(s, m))
    IN  IF n <= 1 THEN <<s>> ELSE Eager(cut, Index(s, c))

\* strings.SplitN: the slice returned (parts) and the capacity of its array.
\* n < 0 means all pieces; the array has min(n, len(s)+1) zeroed slots.
SplitN(s, c, n) ==
    IF n = 0 THEN [parts |-> <<>>, cap |-> 0]
    ELSE LET want == IF n < 0 THEN Count(s, c) + 1 ELSE n
             slots == Min(want, Len(s) + 1)
         IN  [parts |-> SplitLoop(s, c, slots), cap |-> slots]

\* strings.Split
Split(s, c) == SplitN(s, c, -1).parts

\* strings.Join
RECURSIVE Join(_, _)
Join(parts, sep) ==
    IF parts = <<>> THEN <<>>
    ELSE IF Len(parts) = 1 THEN parts[1]
    ELSE parts[1] \o sep \o Join(Tail(parts), sep)

\* strings.Replace(s, old, new, -1) for a non-empty old
RECURSIVE ReplaceAll(_, _, _)
ReplaceAll(s, old, new) ==
    IF Len(s) < Len(old) THEN s
    ELSE IF HasPrefix(s, old) THEN new \o ReplaceAll(Drop(s, Len(old)), old, new)
    ELSE <<Head(s)>> \o ReplaceAll(Tail(s), old, new)

\* The slice expression takes one piece too many: sl[0:hi+1].
ResliceInclusive(sl, hi) ==
    IF hi + 1 > sl.cap THEN [panic |-> TRUE, elems |-> <<>>]
    ELSE [panic |-> FALSE,
          elems |-> [k \in 1..(hi + 1) |-> IF k <= Len(sl.parts) THEN sl.parts[k] ELSE <<>>]]

\* The Go slice expression sl[0:hi] on the slice SplitN returned: it may reach
\* past the length up to the capacity (the slots make() zeroed read as ""),
\* and panics past the capacity.
Reslice(sl, hi) ==
    IF hi > sl.cap THEN [panic |-> TRUE, elems |-> <<>>]
    ELSE [panic |-> FALSE,
          elems |-> [k \in 1..hi |-> IF k <= Len(sl.parts) THEN sl.parts[k] ELSE <<>>]]

(***************************************************************************)
(* Go path.Match.                                                          *)
(***************************************************************************)
\* The code points of the characters the model uses.
Ord(c) ==
    CASE c = " " -> 32
      [] c = "*" -> 42
      [] c = "-" -> 45
      [] c = "/" -> 47
      [] c = ":" -> 58
      [] c = "?" -> 63
      [] c = "G" -> 71
      [] c = "[" -> 91
      [] c = "\\" -> 92
      [] c = "]" -> 93
      [] c = "^" -> 94
      [] c = "a" -> 97
      [] c = "b" -> 98
      [] OTHER -> 120

RECURSIVE StripStars(_)
StripStars(p) ==
    IF p # <<>> /\ Head(p) = "*" THEN StripStars(Tail(p)) ELSE p

\* path.scanChunk's scan: the length of the chunk at the head of p.
RECURSIVE ScanEnd(_, _, _)
ScanEnd(p, i, inrange) ==
    IF i >= Len(p) THEN Len(p)
    ELSE LET c == p[i + 1] IN
         IF c = "\\" THEN ScanEnd(p, (IF i + 1 < Len(p) THEN i + 2 ELSE i + 1), inrange)
         ELSE IF c = "[" THEN ScanEnd(p, i + 1, TRUE)
         ELSE IF c = "]" THEN ScanEnd(p, i + 1, FALSE)
         ELSE IF c = "*" /\ ~inrange THEN i
         ELSE ScanEnd(p, i + 1, inrange)

\* path.scanChunk
scanChunk(pattern) ==
    LET cut(v) == [star |-> pattern # <<>> /\ Head(pattern) = "*",
                   chunk |-> Take(v[1], v[2]),
                   rest |-> Drop(v[1], v[2])]
        scan(p) == Eager(cut, <<p, ScanEnd(p, 0, FALSE)>>)
    IN  Eager(scan, StripStars(pattern))

\* path.getEsc
getEsc(chunk) ==
    IF chunk = <<>> \/ Head(chunk) = "-" \/ Head(chunk) = "]"
    THEN [r |-> 0, chunk |-> <<>>, err |-> ErrBadPattern]
    ELSE LET c1 == IF Head(chunk) = "\\" THEN Tail(chunk) ELSE chunk IN
         IF c1 = <<>> THEN [r |-> 0, chunk |-> <<>>, err |-> ErrBadPattern]
         ELSE [r |-> Ord(Head(c1)),
               chunk |-> Tail(c1),
               err |-> IF Tail(c1) = <<>> THEN ErrBadPattern ELSE Nil]

\* The range loop of a character class in path.matchChunk.
RECURSIVE parseRanges(_, _, _, _)
parseRanges(chunk, r, match, nrange) ==
    LET badClass == [err |-> ErrBadPattern, chunk |-> <<>>, match |-> FALSE]
        next(v) == parseRanges(v[1], r, v[2], nrange + 1)
        upTo(lo, hi) ==
            IF hi.err # Nil THEN badClass
            ELSE Eager(next, <<hi.chunk, match \/ (lo.r <= r /\ r <= hi.r)>>)
        from(lo) ==
            IF lo.err # Nil THEN badClass
            ELSE IF Head(lo.chunk) = "-"
                 THEN Eager(LAMBDA hi : upTo(lo, hi), getEsc(Tail(lo.chunk)))
                 ELSE Eager(next, <<lo.chunk, match \/ lo.r = r>>)
    IN  IF chunk # <<>> /\ Head(chunk) = "]" /\ nrange > 0
        THEN [err |-> Nil, chunk |-> Tail(chunk), match |-> match]
        ELSE Eager(from, getEsc(chunk))

\* path.matchChunk: after the match has failed the loop goes on over the chunk,
\* checking that it is well formed, without reading s.
RECURSIVE matchChunkLoop(_, _, _)
matchChunkLoop(chunk, s, wasFailed) ==
    LET failed == wasFailed \/ s = <<>>
        bad == [rest |-> <<>>, ok |-> FALSE, err |-> ErrBadPattern]
        again(v) == matchChunkLoop(v[1], v[2], v[3])
        literal(ch) == <<Tail(ch), IF failed THEN s ELSE Tail(s), failed \/ Head(ch) # Head(s)>>
        class(negated, cls) ==
            IF cls.err # Nil THEN <<>>
            ELSE <<cls.chunk, IF failed THEN s ELSE Tail(s), failed \/ cls.match = negated>>
        classAt(c1) ==
            LET negated == c1 # <<>> /\ Head(c1) = "^" IN
            Eager(LAMBDA cls : class(negated, cls),
                  parseRanges(IF negated THEN Tail(c1) ELSE c1,
                              IF failed THEN 0 ELSE Ord(Head(s)), FALSE, 0))
        \* the state after the element at the head of the chunk; <<>> for a bad pattern
        step == CASE Head(chunk) = "[" -> classAt(Tail(chunk))
                  [] Head(chunk) = "?" ->
                       <<Tail(chunk), IF failed THEN s ELSE Tail(s), failed \/ Head(s) = "/">>
                  [] Head(chunk) = "\\" ->
                       IF Tail(chunk) = <<>> THEN <<>> ELSE literal(Tail(chunk))
                  [] OTHER -> literal(chunk)
        go(v) == IF v = <<>> THEN bad ELSE again(v)
    IN  IF chunk = <<>>
        THEN IF wasFailed THEN [rest |-> <<>>, ok |-> FALSE, err |-> Nil]
             ELSE [rest |-> s, ok |-> TRUE, err |-> Nil]
        ELSE Eager(go, step)

matchChunk(chunk, s) == matchChunkLoop(chunk, s, FALSE)

\* The star loop of path.Match: skip i+1 characters of name, never a "/".
RECURSIVE starSkip(_, _, _, _)
starSkip(chunk, rest, name, i) ==
    LET try(m) ==
            IF m.ok /\ ~(rest = <<>> /\ m.rest # <<>>)
            THEN [found |-> TRUE, name |-> m.rest, err |-> Nil]
            ELSE IF ~m.ok /\ m.err # Nil THEN [found |-> FALSE, name |-> <<>>, err |-> m.err]
            ELSE starSkip(chunk, rest, name, i + 1)
    IN  IF i >= Len(name) \/ name[i + 1] = "/"
        THEN [found |-> FALSE, name |-> <<>>, err |-> Nil]
        ELSE Eager(try, matchChunk(chunk, Drop(name, i + 1)))

\* The closing loop of path.Match: the rest of the pattern must be well formed.
RECURSIVE restError(_)
restError(pattern) ==
    LET check(sc) == IF matchChunk(sc.chunk, <<>>).err # Nil THEN ErrBadPattern
                     ELSE restError(sc.rest)
    IN  IF pattern = <<>> THEN Nil ELSE Eager(check, scanChunk(pattern))

\* path.Match
RECURSIVE Match(_, _)
Match(pattern, name) ==
    LET next(v) == Match(v[1], v[2])
        skipped(sc, sk) ==
            IF sk.found THEN Eager(next, <<sc.rest, sk.name>>)
            ELSE IF sk.err # Nil THEN [matched |-> FALSE, err |-> sk.err]
            ELSE [matched |-> FALSE, err |-> restError(sc.rest)]
        chunked(sc, m) ==
            IF m.ok /\ (m.rest = <<>> \/ sc.rest # <<>>) THEN Eager(next, <<sc.rest, m.rest>>)
            ELSE IF m.err # Nil THEN [matched |-> FALSE, err |-> m.err]
            ELSE Eager(LAMBDA sk : skipped(sc, sk),
                       IF sc.star THEN starSkip(sc.chunk, sc.rest, name, 0)
                       ELSE [found |-> FALSE, name |-> <<>>, err |-> Nil])
        scanned(sc) ==
            IF sc.star /\ sc.chunk = <<>>
            THEN [matched |-> Count(name, "/") = 0, err |-> Nil]
            ELSE Eager(LAMBDA m : chunked(sc, m), matchChunk(sc.chunk, name))
    IN  IF pattern = <<>> THEN [matched |-> name = <<>>, err |-> Nil]
        ELSE Eager(scanned, scanChunk(pattern))

(***************************************************************************)
(* The Resolver.                                                           *)
(***************************************************************************)
DoubleStar == <<"*", "*">>
SlashDoubleStar == <<"/", "*", "*">>

\* Resolver.subtreeMatch: (ok, err), or a panic of the slice expression.
subtreeMatch(pathName, pattern) ==
    LET matched(m) ==
            IF m.matched /\ m.err = Nil THEN [ok |-> TRUE, err |-> Nil, panic |-> FALSE]
            ELSE [ok |-> FALSE, err |-> m.err, panic |-> FALSE]
        sliced(head) ==
            IF head.panic THEN [ok |-> FALSE, err |-> Nil, panic |-> TRUE]
            ELSE LET prefix == Join(head.elems, <<"/">>)
                     subpattern == ReplaceAll(pattern, SlashDoubleStar, <<>>)
                 IN  Eager(matched, Match(subpattern, prefix))
        counted(countSlash) ==
            IF countSlash = 0 THEN [ok |-> FALSE, err |-> ErrIllegalStar, panic |-> FALSE]
            ELSE Eager(sliced, Reslice(SplitN(pathName, "/", countSlash + 1), countSlash))
    IN  IF pattern = DoubleStar THEN [ok |-> TRUE, err |-> Nil, panic |-> FALSE]
        ELSE Eager(counted, Count(pattern, "/"))

\* The body of ResolvePath's loop for one pattern: return (ret, err), go on to
\* the next pattern, or panic.  The error of subtreeMatch is dropped (ok, _).
tryPattern(pattern, pathName) ==
    LET globbed(m) ==
            IF m.matched /\ m.err = Nil THEN [kind |-> "return", ret |-> pattern, err |-> Nil]
            ELSE IF m.err # Nil THEN [kind |-> "return", ret |-> pathName, err |-> m.err]
            ELSE [kind |-> "continue", ret |-> <<>>, err |-> Nil]
        subtree(sub) ==
            IF sub.panic THEN [kind |-> "panic", ret |-> <<>>, err |-> Nil]
            ELSE IF sub.ok THEN [kind |-> "return", ret |-> pattern, err |-> Nil]
            ELSE Eager(globbed, Match(pattern, pathName))
    IN  Eager(subtree, IF HasSuffix(pattern, DoubleStar) THEN subtreeMatch(pathName, pattern)
                       ELSE [ok |-> FALSE, err |-> Nil, panic |-> FALSE])

\* The range loop takes the patterns in order.
nextIndex(i) == i + 1

\* A call that is not running: no frame.
idleCall == [pc |-> "idle", pathName |-> <<>>, i |-> 0, ret |-> <<>>, err |-> Nil]

\* The loop starts one pattern late.
enterResolvePathLate(pathName) ==
    [pc |-> "loop", pathName |-> pathName, i |-> 2, ret |-> <<>>, err |-> Nil]

\* Entering ResolvePath: the loop starts at the first pattern.
enterResolvePath(pathName) ==
    [pc |-> "loop", pathName |-> pathName, i |-> 1, ret |-> <<>>, err |-> Nil]

\* The loop index lives in the resolver, shared by every running call.
continueLoopShared(cs, c) ==
    [d \in DOMAIN cs |-> IF cs[d].pc = "loop" THEN [cs[d] EXCEPT !.i = nextIndex(cs[c].i)]
                         ELSE cs[d]]

\* No match and no error: this call goes on to the next pattern.
continueLoop(cs, c) == [cs EXCEPT ![c].i = nextIndex(cs[c].i)]

\* ResolvePath run to its end from pattern i on: what one call returns alone.
RECURSIVE resolveFrom(_, _, _)
resolveFrom(ps, pathName, i) ==
    LET tried(t) ==
            IF t.kind = "panic" THEN [pc |-> "panic", ret |-> <<>>, err |-> Nil]
            ELSE IF t.kind = "return" THEN [pc |-> "done", ret |-> t.ret, err |-> t.err]
            ELSE resolveFrom(ps, pathName, i + 1)
    IN  IF i > Len(ps) THEN [pc |-> "done", ret |-> pathName, err |-> ErrRouteNotFound]
        ELSE Eager(tried, tryPattern(ps[i], pathName))

(***************************************************************************)
(* Basic authentication.                                                   *)
(***************************************************************************)
StatusUnauthorized == 401

\* The alphabet of base64.StdEncoding; a character's value is its place less one.
B64Alphabet ==
    << "A", "B", "C", "D", "E", "F", "G", "H", "I", "J", "K", "L", "M",
       "N", "O", "P", "Q", "R", "S", "T", "U", "V", "W", "X", "Y", "Z",
       "a", "b", "c", "d", "e", "f", "g", "h", "i", "j", "k", "l", "m",
       "n", "o", "p", "q", "r", "s", "t", "u", "v", "w", "x", "y", "z",
       "0", "1", "2", "3", "4", "5", "6", "7", "8", "9", "+", "/" >>

B64Value(c) == Index(B64Alphabet, c) - 1

IsB64(c) == Index(B64Alphabet, c) # 0

\* The bytes of one quantum of four characters, "=" padding the last one.
quantumBytes(q, last) ==
    LET v(k) == B64Value(q[k])
        b1 == v(1) * 4 + v(2) \div 16
        b2 == (v(2) % 16) * 16 + v(3) \div 4
        b3 == (v(3) % 4) * 64 + v(4)
    IN  IF ~(IsB64(q[1]) /\ IsB64(q[2])) THEN [ok |-> FALSE, bytes |-> <<>>]
        ELSE IF IsB64(q[3]) /\ IsB64(q[4]) THEN [ok |-> TRUE, bytes |-> <<b1, b2, b3>>]
        ELSE IF last /\ IsB64(q[3]) /\ q[4] = "=" THEN [ok |-> TRUE, bytes |-> <<b1, b2>>]
        ELSE IF last /\ q[3] = "=" /\ q[4] = "=" THEN [ok |-> TRUE, bytes |-> <<b1>>]
        ELSE [ok |-> FALSE, bytes |-> <<>>]

\* base64.StdEncoding.DecodeString: the bytes, or a CorruptInputError.
RECURSIVE DecodeString(_)
DecodeString(s) ==
    LET join(v) == IF v[1].ok /\ v[2].ok THEN [ok |-> TRUE, bytes |-> v[1].bytes \o v[2].bytes]
                   ELSE [ok |-> FALSE, bytes |-> <<>>]
    IN  IF s = <<>> THEN [ok |-> TRUE, bytes |-> <<>>]
        ELSE IF Len(s) < 4 THEN [ok |-> FALSE, bytes |-> <<>>]
        ELSE Eager(join, <<quantumBytes(Take(s, 4), Len(s) = 4), DecodeString(Drop(s, 4))>>)

\* strings.TrimSpace, the space being the only white space of the model
RECURSIVE TrimLeft(_)
TrimLeft(s) == IF s # <<>> /\ Head(s) = " " THEN TrimLeft(Tail(s)) ELSE s

RECURSIVE TrimRight(_)
TrimRight(s) == IF s # <<>> /\ s[Len(s)] = " " THEN TrimRight(Take(s, Len(s) - 1)) ELSE s

TrimSpace(s) == TrimRight(TrimLeft(s))

Colon == 58

\* parseBasicString: (user, pass, err), or a panic of parts[1].  The decoded
\* string is a sequence of bytes.
parseBasicString(header) ==
    LET outOfRange == [user |-> <<>>, pass |-> <<>>, err |-> Nil, panic |-> TRUE]
        credentials(parts) ==
            IF Len(parts) < 1 THEN outOfRange
            ELSE IF Len(parts) > 0
                 THEN IF Len(parts) < 2 THEN outOfRange
                      ELSE [user |-> parts[1], pass |-> parts[2], err |-> Nil, panic |-> FALSE]
            ELSE [user |-> parts[1], pass |-> <<>>, err |-> Nil, panic |-> FALSE]
        decoded(full) ==
            IF ~full.ok
            THEN [user |-> <<>>, pass |-> <<>>, err |-> "CorruptInputError", panic |-> FALSE]
            ELSE Eager(credentials, SplitN(full.bytes, Colon, 2).parts)
        fields(parts) ==
            IF Len(parts) < 2
            THEN [user |-> <<>>, pass |-> <<>>, err |-> "No auth string found.", panic |-> FALSE]
            ELSE Eager(decoded, DecodeString(parts[2]))
    IN  Eager(fields, Split(header, " "))

\* UserPasswordLookup.IsValid of the configured lookup: (ok, err).
IsValid(users, username, password) ==
    IF users.failing THEN [ok |-> users.okWhenFailing, err |-> "lookup failed"]
    ELSE [ok |-> <<username, password>> \in users.valid, err |-> Nil]

\* BasicAuth.Authenticate: (ok, err) and the lookups made, or a panic.
BasicAuthenticate(users, data) ==
    LET parsed(c) ==
            IF c.panic THEN [ok |-> FALSE, err |-> Nil, panic |-> TRUE, lookups |-> <<>>]
            ELSE IF c.err # Nil
                 THEN [ok |-> FALSE, err |-> "Basic authentication parsing failed",
                       panic |-> FALSE, lookups |-> <<>>]
            ELSE [ok |-> IsValid(users, c.user, c.pass).ok,
                  err |-> IsValid(users, c.user, c.pass).err,
                  panic |-> FALSE,
                  lookups |-> << <<c.user, c.pass>> >>]
    IN  Eager(parsed, parseBasicString(data))

\* sendUnauthorized: what is written to the ResponseWriter.
sendUnauthorizedForbidden(realm, written) ==
    Append(written, [status |-> 403, challenge |-> <<"Basic realm=", realm>>,
                     body |-> "Authentication Required"])

sendUnauthorized(realm, written) ==
    Append(written, [status |-> StatusUnauthorized, challenge |-> <<"Basic realm=", realm>>,
                     body |-> "Authentication Required"])

BasicSpace == <<"B", "a", "s", "i", "c", " ">>

\* HTTPAuth.Authenticate on a request with this Authorization header: the
\* bool returned, what was written, the lookups made; or a panic.
HTTPAuthenticate(h, header) ==
    LET refused(lookups) ==
            [ok |-> FALSE, panic |-> FALSE, lookups |-> lookups,
             written |-> sendUnauthorized(h.realm, <<>>)]
        checked(r) ==
            IF r.panic THEN [ok |-> FALSE, panic |-> TRUE, lookups |-> r.lookups, written |-> <<>>]
            ELSE IF ~r.ok THEN refused(r.lookups)
            ELSE [ok |-> TRUE, panic |-> FALSE, lookups |-> r.lookups, written |-> <<>>]
        trimmed(authz) ==
            IF Len(authz) = 0 \/ ~Contains(authz, BasicSpace) THEN refused(<<>>)
            ELSE IF ~h.hasBasic THEN refused(<<>>)
            ELSE Eager(checked, BasicAuthenticate(h.users, authz))
    IN  Eager(trimmed, TrimSpace(header))

(***************************************************************************)
(* Inputs.                                                                 *)
(***************************************************************************)
SeqsUpTo(S, n) == UNION {[1..k -> S] : k \in 0..n}

PatChars == {"a", "/", "*", "["}
PathChars == {"a", "/"}

Suffixes == {<<>>, DoubleStar, SlashDoubleStar}

\* Patterns beyond the generated ones: the shapes of the unit test's routes
\* and of the documentation's examples, and a negated character class.
SamplePatterns ==
    { <<"*", " ", "/", "a", "/", "*", "/", "*", "*">>,
      <<"G", " ", "/", "a", "/", "*", "*">>,
      <<"G", " ", "*", "*">>,
      <<"/", "[", "^", "a", "]", "/", "*", "*">>,
      <<"/", "a", "/", "b", "/", "*", "*">> }

Patterns == {b \o s : b \in SeqsUpTo(PatChars, MaxBodyLen), s \in Suffixes} \cup SamplePatterns

\* The second pattern of a two-pattern list.
Companions == {DoubleStar, <<"[">>, <<"*">>}

PatternLists ==
    {<<>>} \cup {<<p>> : p \in Patterns}
           \cup {<<p, f>> : p \in Patterns, f \in Companions}
           \cup {<<f, p>> : p \in Patterns, f \in Companions}

SampleDescriptors ==
    { <<"G", " ", "/", "a">>,
      <<"G", " ", "a">>,
      <<"/", "/", "/", "/">>,
      <<"/", "a", "/", "b", "/", "a", "/", "b">> }

Descriptors == SeqsUpTo(PathChars, MaxPathLen) \cup SampleDescriptors

Methods == {<<"G">>}
URLPaths == {<<"/", "a">>, <<"/", "a", "/", "b">>}

\* The unit test's routes and requests, cut to the model's alphabet.
TestRoutes ==
    << <<"*", " ", "/", "a">>,
       <<"G", " ", "/", "b", "/", "*", "*">>,
       <<"*", " ", "/", "b", "/", "*">>,
       DoubleStar >>

TestLists ==
    { TestRoutes,
      SubSeq(TestRoutes, 1, 3),
      <<<<"/", "a", "/", "b", "/", "*", "*">>, DoubleStar>>,
      <<<<"*", " ", "/", "a">>, <<"[">>>> }

TestDescriptors ==
    { <<"G", " ", "/", "a">>,
      <<"G", " ", "/", "b", "/", "a", "/", "b">>,
      <<"a", " ", "/", "b", "/", "a">>,
      <<"a">> }

\* The space-separated fields of an Authorization header: the scheme, and
\* base64 of "u:p", "u", "u:", ":p", an unpadded and a corrupt string.
HeaderFields ==
    { <<>>,
      <<"B", "a", "s", "i", "c">>,
      <<"D", "i", "g", "e", "s", "t">>,
      <<"d", "T", "p", "w">>,
      <<"d", "Q", "=", "=">>,
      <<"d", "T", "o", "=">>,
      <<"O", "n", "A", "=">>,
      <<"d", "Q">>,
      <<"d", "!", "p", "w">> }

Headers == {Join(fs, <<" ">>) : fs \in SeqsUpTo(HeaderFields, MaxFields)}

\* The credentials "u:p" and ":p" as bytes.
UserU == <<117>>
PassP == <<112>>

Lookups ==
    [valid : {{<<UserU, PassP>>}, {<<<<>>, PassP>>, <<UserU, <<>>>>}},
     failing : BOOLEAN,
     okWhenFailing : BOOLEAN]

Realms == {"secret", "admin"}

\* NewBasicHTTPAuth, and the HTTPAuth values a caller can build: another
\* realm, no provider registered.
NewBasicHTTPAuth(pwdb) == [realm |-> "secret", hasBasic |-> TRUE, users |-> pwdb]

Handlers ==
    {NewBasicHTTPAuth(u) : u \in Lookups}
        \cup [realm : Realms, hasBasic : BOOLEAN, users : Lookups]

(***************************************************************************)
(* The state machine.                                                      *)
(***************************************************************************)
\* No authentication handler in the resolver's runs.
noAuth == [pc |-> "none"]

idleAuth(h) ==
    [pc |-> "idle", h |-> h, entry |-> "", header |-> <<>>, ok |-> FALSE, err |-> Nil,
     written |-> <<>>, lookups |-> <<>>]

\* NewResolver keeps the sequence it is given.
NewResolver(ps) ==
    /\ paths = ps
    /\ given = ps

Init ==
    /\ \E ps \in PatternLists : NewResolver(ps)
    /\ calls = [c \in {1} |-> idleCall]
    /\ auth = noAuth

InitConcurrent ==
    /\ \E ps \in TestLists : NewResolver(ps)
    /\ calls = [c \in 1..MaxCalls |-> idleCall]
    /\ auth = noAuth

\* An unrecovered panic ends the process: nothing runs after it.
Running == \A c \in DOMAIN calls : calls[c].pc # "panic"

startCall(c, pathName) ==
    /\ Running
    /\ calls[c].pc = "idle"
    /\ calls' = [calls EXCEPT ![c] = enterResolvePath(pathName)]
    /\ UNCHANGED <<paths, given, auth>>

ResolvePath(c) == \E pathName \in Descriptors : startCall(c, pathName)

Resolve(c) == \E m \in Methods, p \in URLPaths : startCall(c, m \o <<" ">> \o p)

ResolvePathTest(c) == \E pathName \in TestDescriptors : startCall(c, pathName)

ResolveTest(c) == \E m \in Methods : startCall(c, m \o <<" ">> \o <<"/", "b", "/", "a">>)

\* One turn of the loop.
Iterate(c) ==
    /\ Running
    /\ calls[c].pc = "loop"
    /\ calls[c].i <= Len(paths)
    /\ \E t \in {tryPattern(paths[calls[c].i], calls[c].pathName)} :
         calls' = IF t.kind = "panic" THEN [calls EXCEPT ![c].pc = "panic"]
                  ELSE IF t.kind = "return"
                       THEN [calls EXCEPT ![c].pc = "done", ![c].ret = t.ret, ![c].err = t.err]
                  ELSE continueLoop(calls, c)
    /\ UNCHANGED <<paths, given, auth>>

\* The list is exhausted.
NotFound(c) ==
    /\ Running
    /\ calls[c].pc = "loop"
    /\ calls[c].i > Len(paths)
    /\ calls' = [calls EXCEPT ![c].pc = "done", ![c].ret = calls[c].pathName,
                              ![c].err = ErrRouteNotFound]
    /\ UNCHANGED <<paths, given, auth>>

\* The caller has the result and may call again.
Return(c) ==
    /\ Running
    /\ calls[c].pc = "done"
    /\ calls' = [calls EXCEPT ![c] = idleCall]
    /\ UNCHANGED <<paths, given, auth>>

Next ==
    \/ \E c \in DOMAIN calls : ResolvePath(c)
    \/ \E c \in DOMAIN calls : Resolve(c)
    \/ \E c \in DOMAIN calls : Iterate(c)
    \/ \E c \in DOMAIN calls : NotFound(c)
    \/ \E c \in DOMAIN calls : Return(c)

NextConcurrent ==
    \/ \E c \in DOMAIN calls : ResolvePathTest(c)
    \/ \E c \in DOMAIN calls : ResolveTest(c)
    \/ \E c \in DOMAIN calls : Iterate(c)
    \/ \E c \in DOMAIN calls : NotFound(c)
    \/ \E c \in DOMAIN calls : Return(c)

InitAuth ==
    /\ paths = <<>>
    /\ given = <<>>
    /\ calls = <<>>
    /\ \E h \in Handlers : auth = idleAuth(h)

\* A request with this Authorization header goes through HTTPAuth.Authenticate.
ServeRequest ==
    /\ auth.pc = "idle"
    /\ \E header \in Headers :
         \E r \in {HTTPAuthenticate(auth.h, header)} :
            auth' = [auth EXCEPT !.pc = IF r.panic THEN "panic" ELSE "done",
                                 !.entry = "HTTPAuth", !.header = header, !.ok = r.ok,
                                 !.written = r.written, !.lookups = r.lookups]
    /\ UNCHANGED <<paths, given, calls>>

\* BasicAuth.Authenticate is called with raw Authorization data.
AuthenticateData ==
    /\ auth.pc = "idle"
    /\ \E data \in Headers :
         \E r \in {BasicAuthenticate(auth.h.users, data)} :
            auth' = [auth EXCEPT !.pc = IF r.panic THEN "panic" ELSE "done",
                                 !.entry = "BasicAuth", !.header = data, !.ok = r.ok,
                                 !.err = r.err, !.lookups = r.lookups]
    /\ UNCHANGED <<paths, given, calls>>

\* The caller has the answer; the next request comes.
Finish ==
    /\ auth.pc = "done"
    /\ auth' = idleAuth(auth.h)
    /\ UNCHANGED <<paths, given, calls>>

NextAuth ==
    \/ ServeRequest
    \/ AuthenticateData
    \/ Finish

Spec == Init /\ [][Next]_vars

SpecAuth == InitAuth /\ [][NextAuth]_vars

SpecConcurrent == InitConcurrent /\ [][NextConcurrent]_vars


(***************************************************************************)
(* The claims.                                                             *)
(***************************************************************************)
Finished(c) == calls[c].pc \in {"done", "panic"}

\* The loop body returns pattern p for descriptor d.
Matches(p, d) == \E t \in {tryPattern(p, d)} : t.kind = "return" /\ t.err = Nil

\* The patterns the loop of a finished call has taken up: those up to calls[c].i.
Reached(c) == 1..Min(calls[c].i, Len(paths))

\* C1: a call that returns a pattern returns the first one, in registration
\* order, that matches its descriptor: no pattern before it matches.
C1_FirstMatchWins ==
    \A c \in DOMAIN calls :
        (calls[c].pc = "done" /\ calls[c].err = Nil) =>
            \E i \in 1..Len(paths) :
                /\ paths[i] = calls[c].ret
                /\ \A j \in 1..(i - 1) : ~Matches(paths[j], calls[c].pathName)

\* Two different patterns both match the descriptor; the first was returned.
C1_Witness ==
    \E c \in DOMAIN calls :
        /\ calls[c].pc = "done"
        /\ calls[c].err = Nil
        /\ Len(paths) = 2
        /\ paths[1] # paths[2]
        /\ calls[c].ret = paths[1]
        /\ Matches(paths[2], calls[c].pathName)

\* A pattern that ends in "**", is not "**" and has no "/".
IllegalStar(p) == HasSuffix(p, DoubleStar) /\ p # DoubleStar /\ Count(p, "/") = 0

\* C2: a call that reaches an illegal "**" pattern ends there with a
\* pattern-syntax error: it neither passes over the pattern, nor returns it,
\* nor ends in ErrRouteNotFound.
C2_IllegalStarFails ==
    \A c \in DOMAIN calls :
        calls[c].pc = "done" =>
            \A j \in Reached(c) :
                IllegalStar(paths[j]) =>
                    /\ calls[c].i = j
                    /\ calls[c].err \in {ErrIllegalStar, ErrBadPattern}

\* p is q + "/**" with at least one "/" in q and no other "/**" in p.
SubtreeShape(p) ==
    /\ HasSuffix(p, SlashDoubleStar)
    /\ Count(p, "/") >= 2
    /\ ~Contains(Take(p, Len(p) - 1), SlashDoubleStar)

\* d is s + "/" + rest for an s that glob-matches q.
UnderPrefix(q, d) ==
    \E k \in 1..Len(d) : d[k] = "/" /\ Match(q, Take(d, k - 1)).matched

\* C3 as first stated: a pattern q + "/**" that the call reaches is returned
\* for every descriptor s + "/" + rest whose s glob-matches q.
C3_SubtreeMatchesUnderPrefix ==
    \A c \in DOMAIN calls :
        calls[c].pc = "done" =>
            \A n \in Reached(c) :
                (SubtreeShape(paths[n])
                    /\ UnderPrefix(Take(paths[n], Len(paths[n]) - 3), calls[c].pathName))
                => /\ calls[c].i = n
                   /\ calls[c].ret = paths[n]
                   /\ calls[c].err = Nil

\* d is s + "/" + rest for an s that glob-matches q and has as many "/" as q.
UnderSegments(q, d) ==
    \E k \in 1..Len(d) :
        /\ d[k] = "/"
        /\ Count(Take(d, k - 1), "/") = Count(q, "/")
        /\ Match(q, Take(d, k - 1)).matched

\* C3, amended: a pattern q + "/**" that the call evaluates is returned for
\* every descriptor s + "/" + rest whose s glob-matches q and has as many "/"
\* as q.
C3_SubtreeMatchesSegments ==
    \A c \in DOMAIN calls :
        calls[c].pc = "done" =>
            \A n \in Reached(c) :
                (SubtreeShape(paths[n])
                    /\ UnderSegments(Take(paths[n], Len(paths[n]) - 3), calls[c].pathName))
                => /\ calls[c].i = n
                   /\ calls[c].ret = paths[n]
                   /\ calls[c].err = Nil

\* A "/**" pattern was returned for a descriptor that goes on with further
\* "/" below the prefix and that the pattern does not glob-match as a whole.
C3_Witness ==
    \E c \in DOMAIN calls :
        /\ calls[c].pc = "done"
        /\ calls[c].err = Nil
        /\ SubtreeShape(calls[c].ret)
        /\ UnderSegments(Take(calls[c].ret, Len(calls[c].ret) - 3), calls[c].pathName)
        /\ Count(calls[c].pathName, "/") > Count(calls[c].ret, "/")
        /\ ~Match(calls[c].ret, calls[c].pathName).matched

\* C4: with "**" last in the list, a call none of whose earlier patterns
\* matches (or fails) ends returning "**" with no error.
C4_CatchAllLast ==
    \A c \in DOMAIN calls :
        (/\ Finished(c)
         /\ Len(paths) >= 1
         /\ paths[Len(paths)] = DoubleStar
         /\ \A j \in 1..(Len(paths) - 1) :
                tryPattern(paths[j], calls[c].pathName).kind # "return")
        => /\ calls[c].pc = "done"
           /\ calls[c].ret = DoubleStar
           /\ calls[c].err = Nil

\* C5: a call ends in one of three ways and no other: a pattern of the list
\* with no error, ErrRouteNotFound after the whole list, a pattern-syntax error.
C5_ThreeOutcomes ==
    \A c \in DOMAIN calls :
        /\ calls[c].pc # "panic"
        /\ calls[c].pc = "done" =>
              \/ calls[c].err = Nil /\ \E i \in 1..Len(paths) : paths[i] = calls[c].ret
              \/ calls[c].err = ErrRouteNotFound /\ calls[c].i > Len(paths)
              \/ calls[c].err \in {ErrBadPattern, ErrIllegalStar}

\* path.Match rejects the pattern whatever the name.
InvalidGlob(p) == Match(p, <<>>).err # Nil

\* C6: a call that reaches a pattern with invalid glob syntax ends there with
\* the glob engine's error.
C6_BadPatternAborts ==
    \A c \in DOMAIN calls :
        Finished(c) =>
            \A j \in Reached(c) :
                InvalidGlob(paths[j]) =>
                    /\ calls[c].pc = "done"
                    /\ calls[c].i = j
                    /\ calls[c].err = ErrBadPattern

\* C6 for the calls that do not panic.
BadPatternAbortsUnlessPanic ==
    \A c \in DOMAIN calls :
        calls[c].pc = "done" =>
            \A j \in Reached(c) :
                InvalidGlob(paths[j]) => calls[c].i = j /\ calls[c].err = ErrBadPattern

\* C7: the pattern list stays the sequence NewResolver was given, and every
\* call, however the calls interleave, ends as it ends when run alone.
C7_CallsDoNotInterfere ==
    /\ paths = given
    /\ \A c \in DOMAIN calls :
          Finished(c) =>
              \E r \in {resolveFrom(given, calls[c].pathName, 1)} :
                  /\ calls[c].pc = r.pc
                  /\ calls[c].pc = "done" => calls[c].ret = r.ret /\ calls[c].err = r.err

\* One call has returned a pattern while another, for another descriptor, is
\* in the middle of the list.
C7_Witness ==
    \E c, d \in DOMAIN calls :
        /\ c # d
        /\ calls[c].pc = "done"
        /\ calls[c].err = Nil
        /\ calls[d].pc = "loop"
        /\ calls[d].i > 1
        /\ calls[d].pathName # calls[c].pathName

FirstPieces(d, k) == Take(Split(d, "/"), Min(k, Len(Split(d, "/"))))

\* C9: a "/**" pattern with k "/" matches through the subtree rule only when
\* the first k pieces of the descriptor, joined with "/", glob-match the
\* pattern with "/**" removed.
C9_SubtreeMatchesOnlyPrefix ==
    \A c \in DOMAIN calls :
        (/\ calls[c].pc = "done"
         /\ calls[c].err = Nil
         /\ HasSuffix(calls[c].ret, SlashDoubleStar)
         /\ Count(calls[c].ret, "/") >= 1
         /\ subtreeMatch(calls[c].pathName, calls[c].ret).ok)
        => Match(ReplaceAll(calls[c].ret, SlashDoubleStar, <<>>),
                 Join(FirstPieces(calls[c].pathName, Count(calls[c].ret, "/")), <<"/">>)).matched

\* C10: BasicAuth.Authenticate returns a pair for every header: false and a
\* parsing error, with no lookup, when the header cannot be parsed; otherwise
\* the pair IsValid returns.
C10_AlwaysReturnsPair ==
    auth.entry = "BasicAuth" =>
        /\ auth.pc # "panic"
        /\ auth.pc = "done" =>
              \/ ~auth.ok /\ auth.err # Nil /\ auth.lookups = <<>>
              \/ /\ Len(auth.lookups) = 1
                 /\ auth.ok = IsValid(auth.h.users, auth.lookups[1][1], auth.lookups[1][2]).ok
                 /\ auth.err = IsValid(auth.h.users, auth.lookups[1][1], auth.lookups[1][2]).err

=============================================================================
